---- MODULE Spec2Model ----
(***************************************************************************)
(* Ticket API of app/main.py (FastAPI application "VFX Studio Discord     *)
(* App").  The handlers keep no ticket store: every response is computed  *)
(* from the request and from the system clock.  The state of the model is *)
(* the clock, the library build the process runs on, and the record of    *)
(* the requests answered so far (history variables over which the         *)
(* contract of the ticket store is stated).                               *)
(*                                                                         *)
(* Discord OAuth gateway of the same application: the configuration read  *)
(* from the environment, the login redirect, and the callback handler,    *)
(* which runs in steps separated by its two upstream requests.            *)
(***************************************************************************)
EXTENDS Integers, Sequences, FiniteSets, TLC

VARIABLES
    now,         \* value the next datetime.now() call returns, in hours
    pydantic_v2, \* TRUE when the installed pydantic is 2.x, FALSE for 1.x
    created,     \* <<t>>, t the ticket the first successful create returned
    latest,      \* id of that ticket -> its updatable fields as last returned
    resp,        \* the last HTTP exchange: request and response
    config,      \* DISCORD_CLIENT_ID, DISCORD_CLIENT_SECRET, DISCORD_REDIRECT_URI
    login,       \* the last answer of GET /auth/login
    callback,    \* the invocation of GET /auth/callback being answered
    sent,        \* the upstream requests that invocation has sent, in order
    archive,     \* the archive directory and the time zone of the host
    page,        \* what the dashboard last loaded from /api/old-tickets
    tasks,       \* the request each task of the event loop handles, and
                 \* the number of handler steps it has run
    running,     \* the task that holds the event loop, 0 when none does
    bot,         \* the bot: configuration, background task, client state
    guild,       \* the Discord guild and the runs of on_ready
    botStatus    \* the last answer of GET /api/bot/status

ticketVars == <<now, pydantic_v2, created, latest, resp>>

oauthVars == <<config, login, callback, sent>>

archiveVars == <<archive, page>>

loopVars == <<tasks, running>>

botVars == <<bot, guild, botStatus>>

vars == <<now, pydantic_v2, created, latest, resp, config, login, callback, sent,
          archive, page, tasks, running, bot, guild, botStatus>>

----------------------------------------------------------------------------
(* Bounds of the model. *)

ClockStep == 12    \* hours between two distinct readings of the clock
MaxSteps == 2      \* the clock stops advancing after this many steps
MaxFiles == 2      \* the archive directory holds this many files at most
MaxTasks == 2      \* requests handled concurrently
MaxReady == 2      \* on_ready events the gateway sends

----------------------------------------------------------------------------
(* Python values. *)

None == <<>>
Some(v) == <<v>>

\* s[:n]
Slice(s, n) == SubSeq(s, 1, IF n < Len(s) THEN n ELSE Len(s))

\* `x or default` for an Optional[str] and an Optional[List]: None and the
\* empty value of the type are falsy
StrOr(x, default) == IF x = None \/ x[1] = "" THEN default ELSE x[1]

ListOr(x, default) == IF x = None \/ x[1] = <<>> THEN default ELSE x[1]

DigitStr(d) == SubSeq("0123456789", d + 1, d + 1)

RECURSIVE NatStr(_)
\* str(n) for n >= 0
NatStr(n) == IF n < 10 THEN DigitStr(n) ELSE NatStr(n \div 10) \o DigitStr(n % 10)

\* str(n) for an int
IntStr(n) == IF n < 0 THEN "-" \o NatStr(0 - n) ELSE NatStr(n)

RECURSIVE Zeros(_)
Zeros(k) == IF k <= 0 THEN "" ELSE "0" \o Zeros(k - 1)

\* n formatted with at least w digits, zero filled
ZeroPad(n, w) == Zeros(w - Len(NatStr(n))) \o NatStr(n)

----------------------------------------------------------------------------
(* The clock.  A datetime is a number of hours since 00:00 of the first    *)
(* day of the model; a timedelta is a number of hours.                    *)

FirstDay == [year |-> 2024, month |-> 12, day |-> 30]

IsLeap(y) == (y % 4 = 0 /\ y % 100 # 0) \/ y % 400 = 0

DaysInMonth(y, m) == IF m = 2 THEN (IF IsLeap(y) THEN 29 ELSE 28)
                     ELSE IF m \in {4, 6, 9, 11} THEN 30 ELSE 31

NextDate(dt) == IF dt.day < DaysInMonth(dt.year, dt.month)
                  THEN [dt EXCEPT !.day = @ + 1]
                ELSE IF dt.month < 12
                  THEN [dt EXCEPT !.month = @ + 1, !.day = 1]
                ELSE [year |-> dt.year + 1, month |-> 1, day |-> 1]

RECURSIVE DateOfDay(_)
DateOfDay(n) == IF n = 0 THEN FirstDay ELSE NextDate(DateOfDay(n - 1))

\* timedelta(days=1)
OneDay == 24

DateOf(t) == DateOfDay(t \div OneDay)

\* datetime.strftime('%Y%m%d')
StrfYmd(t) == LET dt == DateOf(t)
              IN ZeroPad(dt.year, 4) \o ZeroPad(dt.month, 2) \o ZeroPad(dt.day, 2)

MaxClock == MaxSteps * ClockStep

Instants == {k * ClockStep : k \in 0..MaxSteps}

\* the non-decreasing readings of the n successive datetime.now() calls of
\* one handler, during which the clock advances by one step at most
Readings(n) == {r \in [1..n -> {t \in Instants : now <= t /\ t <= now + ClockStep}] :
                  \A i \in 1..(n - 1) : r[i] <= r[i + 1]}

\* values hash(datetime.now()) can take: a signed machine integer that
\* depends on the datetime and on the process's hash seed
HashValues == {-7, 0, 2147483647}

----------------------------------------------------------------------------
(* Enumerations and pydantic models. *)

TicketStatus == {"open", "in_progress", "resolved", "closed"}
TicketPriority == {"low", "medium", "high", "critical"}
TicketType == {"bug", "feature", "task", "technical_debt"}

TicketCreateFields == {"title", "description", "status", "priority", "type",
    "assigned_to", "project_id", "asset_id", "shot_id", "due_date", "tags",
    "environment", "reproducibility_steps", "time_estimate"}

TicketCreateRequired == {"title", "description", "priority", "type", "project_id"}

TicketCreateDefault(f) == IF f = "status" THEN "open"
                          ELSE IF f = "tags" THEN <<>> ELSE None

\* TicketCreate with status, priority and type declared as plain strings
TicketCreate_plain_str(json) ==
    IF TicketCreateRequired \subseteq DOMAIN json
    THEN [ok |-> TRUE,
          value |-> [f \in TicketCreateFields |->
                       IF f \in DOMAIN json THEN json[f] ELSE TicketCreateDefault(f)]]
    ELSE [ok |-> FALSE]

\* TicketCreate parsed from a JSON object: the model, or a validation error
TicketCreate(json) ==
    IF /\ TicketCreateRequired \subseteq DOMAIN json
       /\ "status" \in DOMAIN json => json.status \in TicketStatus
       /\ json.priority \in TicketPriority
       /\ json.type \in TicketType
    THEN [ok |-> TRUE,
          value |-> [f \in TicketCreateFields |->
                       IF f \in DOMAIN json THEN json[f] ELSE TicketCreateDefault(f)]]
    ELSE [ok |-> FALSE]

TicketResponseFields == {"id", "title", "description", "status", "priority",
    "type", "created_by", "assigned_to", "project_id", "created_at",
    "updated_at", "due_date", "tags", "environment", "time_estimate", "time_spent"}

\* fields declared Optional[...] without a default: pydantic 1 gives them
\* the default None, pydantic 2 requires them
TicketResponseOptional == {"assigned_to", "due_date", "environment", "time_estimate"}

TicketResponseRequired(v2) ==
    {"id", "title", "description", "status", "priority", "type", "created_by",
     "project_id", "created_at", "updated_at", "tags"}
      \cup (IF v2 THEN TicketResponseOptional ELSE {})

\* TicketResponse(**kw): the model, or a validation error; keys that are not
\* fields of the model are ignored
TicketResponse(kw, v2) ==
    IF /\ TicketResponseRequired(v2) \subseteq DOMAIN kw
       /\ kw.status \in TicketStatus
       /\ kw.priority \in TicketPriority
       /\ kw.type \in TicketType
    THEN [ok |-> TRUE,
          value |-> [f \in TicketResponseFields |->
                       IF f \in DOMAIN kw THEN kw[f]
                       ELSE IF f = "time_spent" THEN Some(0) ELSE None]]
    ELSE [ok |-> FALSE]

\* the HTTP response for a handler result
Ok(body) == [status |-> 200, body |-> body]
InternalServerError == [status |-> 500, body |-> "Internal Server Error"]
Unprocessable == [status |-> 422, body |-> "validation error"]
NotFoundRoute == [status |-> 404, body |-> "Not Found"]

Respond(model) == IF model.ok THEN Ok(model.value) ELSE InternalServerError

----------------------------------------------------------------------------
(* Handlers.  req is the request [method, path, query, json]; r holds the  *)
(* readings of the handler's datetime.now() calls in evaluation order,     *)
(* those inside hash(...) left out; h is the value of hash(datetime.now()),*)
(* v2 the pydantic build.                                                  *)

QueryOr(req, name, default) ==
    IF name \in DOMAIN req.query THEN req.query[name] ELSE default

\* create_ticket with updated_at read from the clock before created_at
create_ticket_updated_first(req, r, h, v2) ==
    LET ticket == TicketCreate(req.json)
        current_user == QueryOr(req, "current_user", "user123")
        ticket_id == Slice("TICKET-" \o StrfYmd(r[1]) \o "-" \o IntStr(h), 16)
    IN  IF ~ticket.ok THEN Unprocessable
        ELSE Respond(TicketResponse(
                 [id |-> ticket_id] @@ ticket.value @@
                 [created_by |-> current_user,
                  created_at |-> r[3],
                  updated_at |-> r[2],
                  time_spent |-> Some(0)], v2))

\* POST /api/tickets, first registration
create_ticket(req, r, h, v2) ==
    LET ticket == TicketCreate(req.json)
        current_user == QueryOr(req, "current_user", "user123")
        ticket_id == Slice("TICKET-" \o StrfYmd(r[1]) \o "-" \o IntStr(h), 16)
    IN  IF ~ticket.ok THEN Unprocessable
        ELSE Respond(TicketResponse(
                 [id |-> ticket_id] @@ ticket.value @@
                 [created_by |-> current_user,
                  created_at |-> r[2],
                  updated_at |-> r[3],
                  time_spent |-> Some(0)], v2))

MockTicket(id, r) ==
    [id |-> id,
     title |-> "Sample Ticket",
     description |-> "This is a sample ticket",
     status |-> "open",
     priority |-> "medium",
     type |-> "task",
     created_by |-> "user123",
     assigned_to |-> None,
     project_id |-> "project123",
     created_at |-> r[1],
     updated_at |-> r[2],
     tags |-> <<"sample">>,
     environment |-> Some("maya_2024")]

\* GET /api/tickets/{ticket_id}
get_ticket(req, r, h, v2) ==
    Respond(TicketResponse(MockTicket(req.path[3], r), v2))

\* GET /api/tickets, first registration
list_tickets(req, r, h, v2) ==
    LET t == TicketResponse(MockTicket("TICKET-123", r), v2)
    IN  IF t.ok THEN Ok(<<t.value>>) ELSE InternalServerError

TicketUpdateFields == {"title", "description", "status", "priority",
                       "assigned_to", "due_date", "tags"}

\* TicketUpdate parsed from a JSON object: every field defaults to None
TicketUpdate(json) ==
    IF /\ "status" \in DOMAIN json => json.status \in {Some(s) : s \in TicketStatus}
       /\ "priority" \in DOMAIN json => json.priority \in {Some(p) : p \in TicketPriority}
    THEN [ok |-> TRUE,
          value |-> [f \in TicketUpdateFields |->
                       IF f \in DOMAIN json THEN json[f] ELSE None]]
    ELSE [ok |-> FALSE]

\* PUT /api/tickets/{ticket_id}
update_ticket(req, r, h, v2) ==
    LET update == TicketUpdate(req.json)
        u == update.value
    IN  IF ~update.ok THEN Unprocessable
        ELSE Respond(TicketResponse(
                 [id |-> req.path[3],
                  title |-> StrOr(u.title, "Original Title"),
                  description |-> StrOr(u.description, "Original Description"),
                  status |-> StrOr(u.status, "open"),
                  priority |-> StrOr(u.priority, "medium"),
                  type |-> "task",
                  created_by |-> "original_user",
                  assigned_to |-> u.assigned_to,
                  project_id |-> "project123",
                  created_at |-> r[1] - OneDay,
                  updated_at |-> r[2],
                  tags |-> ListOr(u.tags, <<>>),
                  environment |-> Some("maya_2024")], v2))

\* TicketComment parsed from a JSON object
TicketComment(json, r) ==
    IF {"content", "author"} \subseteq DOMAIN json
    THEN [ok |-> TRUE,
          value |-> [content |-> json.content,
                     author |-> json.author,
                     created_at |-> IF "created_at" \in DOMAIN json
                                    THEN json.created_at ELSE r[1],
                     attachments |-> IF "attachments" \in DOMAIN json
                                     THEN json.attachments ELSE <<>>]]
    ELSE [ok |-> FALSE]

\* POST /api/tickets/{ticket_id}/comments
add_ticket_comment(req, r, h, v2) ==
    IF ~TicketComment(req.json, r).ok THEN Unprocessable
    ELSE Ok([message |-> "Comment added successfully",
             ticket_id |-> req.path[3],
             comment_id |-> "comment_" \o IntStr(h)])

\* get_ticket_history with the events listed newest first
get_ticket_history_newest_first(req, r, h, v2) ==
    Ok([ticket_id |-> req.path[3],
        history |-> <<
            [timestamp |-> r[3] - 2, type |-> "comment_added",
             user |-> "user789",
             details |-> "Added comment: 'Working on this now'"],
            [timestamp |-> r[2] - 12, type |-> "status_changed",
             user |-> "user456",
             details |-> "Status changed from 'open' to 'in_progress'"],
            [timestamp |-> r[1] - OneDay, type |-> "created",
             user |-> "user123", details |-> "Ticket created"] >>])

\* GET /api/tickets/{ticket_id}/history
get_ticket_history(req, r, h, v2) ==
    Ok([ticket_id |-> req.path[3],
        history |-> <<
            [timestamp |-> r[1] - OneDay, type |-> "created",
             user |-> "user123", details |-> "Ticket created"],
            [timestamp |-> r[2] - 12, type |-> "status_changed",
             user |-> "user456",
             details |-> "Status changed from 'open' to 'in_progress'"],
            [timestamp |-> r[3] - 2, type |-> "comment_added",
             user |-> "user789",
             details |-> "Added comment: 'Working on this now'"] >>])

\* POST /api/tickets/{ticket_id}/assign
assign_ticket(req, r, h, v2) ==
    IF "assignee" \notin DOMAIN req.query THEN Unprocessable
    ELSE Ok([message |-> "Ticket assigned successfully",
             ticket_id |-> req.path[3],
             assignee |-> req.query.assignee])

\* GET /api/tickets/statistics
get_ticket_statistics(req, r, h, v2) ==
    Ok([total_tickets |-> 150,
        status_breakdown |->
            [open |-> 45, in_progress |-> 38, resolved |-> 52, closed |-> 15],
        priority_breakdown |->
            [low |-> 30, medium |-> 75, high |-> 35, critical |-> 10],
        average_resolution_time |-> "3.5 days",
        most_active_users |-> <<[user |-> "user123", tickets_resolved |-> 25],
                                [user |-> "user456", tickets_resolved |-> 18]>>])

\* GET /api/tickets, second registration; the returned dicts are validated
\* against response_model=List[TicketResponse]
get_tickets(req, r, h, v2) ==
    LET t == TicketResponse(
                 [id |-> "TICKET-001",
                  title |-> "Test Ticket",
                  description |-> "This is a test ticket",
                  status |-> "open",
                  priority |-> "medium",
                  type |-> "task",
                  created_by |-> "user123",
                  created_at |-> r[1],
                  updated_at |-> r[2],
                  project_id |-> "project123"], v2)
    IN  IF t.ok THEN Ok(<<t.value>>) ELSE InternalServerError

\* POST /api/tickets, second registration; the returned dict is validated
\* against response_model=TicketResponse
create_ticket_2(req, r, h, v2) ==
    LET ticket == TicketCreate(req.json)
    IN  IF ~ticket.ok THEN Unprocessable
        ELSE Respond(TicketResponse(
                 [id |-> "TICKET-" \o IntStr(h),
                  title |-> ticket.value.title,
                  description |-> ticket.value.description,
                  status |-> "open",
                  priority |-> ticket.value.priority,
                  type |-> ticket.value.type,
                  created_by |-> "user123",
                  created_at |-> r[1],
                  updated_at |-> r[2],
                  project_id |-> ticket.value.project_id], v2))

----------------------------------------------------------------------------
(* Routing.  The routes of the ticket API in the order of their @app       *)
(* decorators; a request is answered by the first route whose path and     *)
(* method match.                                                           *)

Route(method, path, endpoint) ==
    [method |-> method, path |-> path, endpoint |-> endpoint]

Routes == <<
    Route("POST", <<"api", "tickets">>, "create_ticket"),
    Route("GET",  <<"api", "tickets", "{ticket_id}">>, "get_ticket"),
    Route("GET",  <<"api", "tickets">>, "list_tickets"),
    Route("PUT",  <<"api", "tickets", "{ticket_id}">>, "update_ticket"),
    Route("POST", <<"api", "tickets", "{ticket_id}", "comments">>, "add_ticket_comment"),
    Route("GET",  <<"api", "tickets", "{ticket_id}", "history">>, "get_ticket_history"),
    Route("POST", <<"api", "tickets", "{ticket_id}", "assign">>, "assign_ticket"),
    Route("GET",  <<"api", "tickets", "statistics">>, "get_ticket_statistics"),
    Route("GET",  <<"api", "tickets">>, "get_tickets"),
    Route("POST", <<"api", "tickets">>, "create_ticket_2") >>

IsParam(segment) == SubSeq(segment, 1, 1) = "{"

PathMatches(pattern, path) ==
    /\ Len(pattern) = Len(path)
    /\ \A i \in 1..Len(pattern) : IsParam(pattern[i]) \/ pattern[i] = path[i]

Matching(method, path) ==
    {i \in 1..Len(Routes) :
        Routes[i].method = method /\ PathMatches(Routes[i].path, path)}

Min(S) == CHOOSE x \in S : \A y \in S : x <= y

\* Dispatch with the last matching route answering
DispatchLast(method, path) ==
    IF Matching(method, path) = {} THEN ""
    ELSE Routes[CHOOSE i \in Matching(method, path) :
                  \A j \in Matching(method, path) : j <= i].endpoint

\* the endpoint that answers the request, "" when no route matches
Dispatch(method, path) ==
    IF Matching(method, path) = {} THEN ""
    ELSE Routes[Min(Matching(method, path))].endpoint

\* number of datetime.now() calls of the endpoint outside hash(...)
NowCalls(endpoint) ==
    CASE endpoint = "create_ticket" -> 3
      [] endpoint = "get_ticket" -> 2
      [] endpoint = "list_tickets" -> 2
      [] endpoint = "update_ticket" -> 2
      [] endpoint = "add_ticket_comment" -> 1
      [] endpoint = "get_ticket_history" -> 3
      [] endpoint = "get_tickets" -> 2
      [] endpoint = "create_ticket_2" -> 2
      [] OTHER -> 0

UsesHash(endpoint) ==
    endpoint \in {"create_ticket", "add_ticket_comment", "create_ticket_2"}

Handle(endpoint, req, r, h, v2) ==
    CASE endpoint = "create_ticket" -> create_ticket(req, r, h, v2)
      [] endpoint = "get_ticket" -> get_ticket(req, r, h, v2)
      [] endpoint = "list_tickets" -> list_tickets(req, r, h, v2)
      [] endpoint = "update_ticket" -> update_ticket(req, r, h, v2)
      [] endpoint = "add_ticket_comment" -> add_ticket_comment(req, r, h, v2)
      [] endpoint = "get_ticket_history" -> get_ticket_history(req, r, h, v2)
      [] endpoint = "assign_ticket" -> assign_ticket(req, r, h, v2)
      [] endpoint = "get_ticket_statistics" -> get_ticket_statistics(req, r, h, v2)
      [] endpoint = "get_tickets" -> get_tickets(req, r, h, v2)
      [] endpoint = "create_ticket_2" -> create_ticket_2(req, r, h, v2)
      [] OTHER -> NotFoundRoute

----------------------------------------------------------------------------
(* Requests the clients send. *)

NoQuery == <<>>
NoJson == <<>>

Request(method, path, query, json) ==
    [method |-> method, path |-> path, query |-> query, json |-> json]

\* the create requests sent: a body with the required fields only, a body
\* with a status, an assignee and tags sent with a current_user parameter,
\* and a body that carries the values of the sample ticket
CreateRequests == {
    Request("POST", <<"api", "tickets">>, NoQuery,
        [title |-> "Crash on export", description |-> "Exporter crashes",
         priority |-> "high", type |-> "bug", project_id |-> "proj1"]),
    Request("POST", <<"api", "tickets">>, [current_user |-> "artist7"],
        [title |-> "Crash on export", description |-> "Exporter crashes",
         status |-> "resolved", priority |-> "high", type |-> "bug",
         project_id |-> "proj1", assigned_to |-> Some("alice"),
         tags |-> <<"export", "crash">>]),
    Request("POST", <<"api", "tickets">>, NoQuery,
        [title |-> "Sample Ticket", description |-> "This is a sample ticket",
         priority |-> "medium", type |-> "task", project_id |-> "project123",
         tags |-> <<"sample">>, environment |-> Some("maya_2024")]),
    Request("POST", <<"api", "tickets">>, NoQuery,
        [title |-> "Crash on export", description |-> "Exporter crashes",
         priority |-> "urgent", type |-> "bug", project_id |-> "proj1"]) }

UpdateBodies == {
    [status |-> Some("resolved")],
    [title |-> Some("Crash on export (fixed)"), tags |-> Some(<<"export">>)],
    [assigned_to |-> Some("bob"), priority |-> Some("low")],
    [status |-> Some("done")] }

CommentBodies == {
    [content |-> "Working on this now", author |-> "user789"],
    [content |-> "Cache rebuilt, please retest", author |-> "alice"] }

Assignees == {"alice", "bob"}

\* ids no create has returned
UnknownIds == {"TICKET-123"}

KnownIds == DOMAIN latest

\* the query string of a list request: only the filters that are given
ListQuery(filters) ==
    [k \in {f \in DOMAIN filters : filters[f] # None} |-> filters[k][1]]

NoFilter == [status |-> None, priority |-> None,
             assigned_to |-> None, project_id |-> None]

\* the filter combinations sent: none, each status alone, each other filter
\* alone, and all four together
ListFilters ==
    {NoFilter}
      \cup {[NoFilter EXCEPT !.status = Some(st)] : st \in TicketStatus}
      \cup {[NoFilter EXCEPT !.priority = Some("high")],
            [NoFilter EXCEPT !.assigned_to = Some("alice")],
            [NoFilter EXCEPT !.project_id = Some("proj1")],
            [status |-> Some("open"), priority |-> Some("high"),
             assigned_to |-> Some("alice"), project_id |-> Some("proj1")]}

----------------------------------------------------------------------------
(* Configuration and imports of the module. *)

\* the names the import statements bind in the module's namespace
ModuleNames ==
    {"FastAPI", "HTTPException", "CORSMiddleware", "RedirectResponse",
     "HTMLResponse", "StaticFiles", "BaseModel", "Field", "datetime",
     "timedelta", "os", "aiohttp", "load_dotenv", "quote", "urlencode",
     "List", "Optional", "Dict", "Enum", "Response", "logging", "status",
     "glob", "markdown", "Path", "discord", "ui", "commands", "asyncio"}

\* s.rstrip('/')
RECURSIVE RStrip(_)
RStrip(s) ==
    IF Len(s) > 0 /\ SubSeq(s, Len(s), Len(s)) = "/"
      THEN RStrip(SubSeq(s, 1, Len(s) - 1))
      ELSE s

\* the redirect URI used when the environment names none
DefaultRedirectUri == "http://127.0.0.1:8000/auth/callback"

\* os.getenv(name) on an environment that holds Some(value) or None
Getenv(env, name) == env[name]

\* os.getenv(name, default)
GetenvOr(env, name, default) ==
    IF env[name] = None THEN default ELSE env[name][1]

\* DISCORD_CLIENT_ID, DISCORD_CLIENT_SECRET, DISCORD_REDIRECT_URI
Configure(env) ==
    [client_id     |-> Getenv(env, "DISCORD_CLIENT_ID"),
     client_secret |-> Getenv(env, "DISCORD_CLIENT_SECRET"),
     redirect_uri  |-> RStrip(GetenvOr(env, "DISCORD_REDIRECT_URI",
                                       DefaultRedirectUri))]

\* an environment that sets none of the variables
NoEnv ==
    [DISCORD_CLIENT_ID |-> None, DISCORD_CLIENT_SECRET |-> None,
     DISCORD_REDIRECT_URI |-> None]

\* the environments the process is started in: nothing set, the local
\* development application, a deployed application
Environments ==
    {NoEnv,
     [DISCORD_CLIENT_ID     |-> Some("1303089786495565875"),
      DISCORD_CLIENT_SECRET |-> Some("s3cret"),
      DISCORD_REDIRECT_URI  |-> Some("http://127.0.0.1:8000/auth/callback/")],
     [DISCORD_CLIENT_ID     |-> Some("777000111222333444"),
      DISCORD_CLIENT_SECRET |-> Some("hunter2"),
      DISCORD_REDIRECT_URI  |-> Some("https://vfx.example.com/auth/callback")]}

----------------------------------------------------------------------------
(* urllib.parse.quote *)

\* the printable ASCII characters: codes 32 to 95, and codes 97 to 126
AsciiLow ==
    " !\"#$%&'()*+,-./0123456789:;<=>?@ABCDEFGHIJKLMNOPQRSTUVWXYZ[\\]^_"

AsciiHigh == "abcdefghijklmnopqrstuvwxyz{|}~"

\* ord(c)
Ord(c) ==
    IF \E i \in 1..Len(AsciiLow) : SubSeq(AsciiLow, i, i) = c
      THEN 31 + (CHOOSE i \in 1..Len(AsciiLow) : SubSeq(AsciiLow, i, i) = c)
      ELSE 96 + (CHOOSE i \in 1..Len(AsciiHigh) : SubSeq(AsciiHigh, i, i) = c)

HexDigit(d) == SubSeq("0123456789ABCDEF", d + 1, d + 1)

\* the characters quote() leaves alone: letters, digits, "_.-~" and the
\* default safe character "/"
QuoteSafe(c) ==
    \/ Ord(c) \in 48..57
    \/ Ord(c) \in 65..90
    \/ Ord(c) \in 97..122
    \/ c \in {"_", ".", "-", "~", "/"}

RECURSIVE Quote(_)
Quote(s) ==
    IF Len(s) = 0 THEN ""
    ELSE LET c == SubSeq(s, 1, 1)
         IN  (IF QuoteSafe(c) THEN c
              ELSE "%" \o HexDigit(Ord(c) \div 16) \o HexDigit(Ord(c) % 16))
               \o Quote(SubSeq(s, 2, Len(s)))

\* sub in s
Contains(s, sub) ==
    \E i \in 1..(Len(s) - Len(sub) + 1) : SubSeq(s, i, i + Len(sub) - 1) = sub

\* s.startswith(prefix)
StartsWith(s, prefix) ==
    Len(s) >= Len(prefix) /\ SubSeq(s, 1, Len(prefix)) = prefix

----------------------------------------------------------------------------
(* GET /auth/login *)

AuthorizeUrl == "https://discord.com/api/oauth2/authorize"

\* The handler evaluates urllib.parse.quote: the name urllib is looked up
\* in the module's namespace, and an unbound name raises NameError, which
\* the framework answers with 500.
discord_login ==
    IF "urllib" \notin ModuleNames
      THEN [status |-> 500, location |-> None]
      ELSE [status |-> 307,
            location |->
              Some(AuthorizeUrl
                   \o "?client_id=1303089786495565875"
                   \o "&permissions=8"
                   \o "&response_type=code"
                   \o "&redirect_uri="
                   \o Quote("http://127.0.0.1:8000/auth/callback")
                   \o "&scope="
                   \o Quote("bot applications.commands identify guilds guilds.members.read"))]

----------------------------------------------------------------------------
(* GET /auth/callback *)

TokenUrl == "https://discord.com/api/oauth2/token"

ProfileUrl == "https://discord.com/api/users/@me"

\* session.post(token endpoint, data=data)
TokenRequest(cfg, code) ==
    [method  |-> "POST",
     url     |-> TokenUrl,
     data    |-> Some([client_id     |-> cfg.client_id,
                       client_secret |-> cfg.client_secret,
                       grant_type    |-> "authorization_code",
                       code          |-> code,
                       redirect_uri  |-> cfg.redirect_uri,
                       scope         |-> "identify guilds bot applications.commands"]),
     headers |-> None]

\* session.get(profile endpoint, headers=headers)
ProfileRequest(token_data) ==
    [method  |-> "GET",
     url     |-> ProfileUrl,
     data    |-> None,
     headers |-> Some([Authorization |-> "Bearer " \o token_data.access_token])]

\* str(e) of an HTTPException: "<status>: <detail>" where the installed
\* Starlette defines __str__ for it, the empty string where it does not
HTTPExceptionStr(status, detail, has_str) ==
    IF has_str THEN NatStr(status) \o ": " \o detail ELSE ""

\* raise HTTPException(status_code=400, detail=detail) out of the handler
BadRequest(detail) == [status |-> 400, body |-> [detail |-> detail]]

\* an invocation that has not started
Idle == [pc |-> "idle", code |-> "", token |-> None, profile |-> None,
         out |-> None]

\* the handler up to its first await: the token request goes out
callback_begin(cfg, code) ==
    [callback |-> [Idle EXCEPT !.pc = "token", !.code = code],
     send     |-> <<TokenRequest(cfg, code)>>]

\* the except clause: whatever was raised becomes a 400 carrying str(e)
callback_except(cb, str_e) ==
    [callback |-> [cb EXCEPT !.pc = "done", !.out = Some(BadRequest(str_e))],
     send     |-> <<>>]

\* mutant of after_token: asks for the profile whatever the token endpoint
\* answered
after_token_unchecked(cb, reply, has_str) ==
    LET got == [cb EXCEPT !.token = Some(reply)]
    IN  IF reply.raised # ""
          THEN callback_except(got, reply.raised)
          ELSE [callback |-> [got EXCEPT !.pc = "profile"],
                send     |-> <<ProfileRequest(
                                 IF "access_token" \in DOMAIN reply.json
                                   THEN reply.json
                                   ELSE [access_token |-> ""])>>]

\* mutant of after_token: posts the code again when the token endpoint
\* refuses it
after_token_retry(cb, reply, has_str) ==
    LET got == [cb EXCEPT !.token = Some(reply)]
    IN  IF reply.raised # ""
          THEN callback_except(got, reply.raised)
        ELSE IF reply.status # 200
          THEN [callback |-> got,
                send     |-> <<TokenRequest([client_id |-> None,
                                             client_secret |-> None,
                                             redirect_uri |-> ""], cb.code)>>]
        ELSE IF "access_token" \notin DOMAIN reply.json
          THEN callback_except(got, "'access_token'")
        ELSE [callback |-> [got EXCEPT !.pc = "profile"],
              send     |-> <<ProfileRequest(reply.json)>>]

\* the handler from the token endpoint's answer to its second await
after_token(cb, reply, has_str) ==
    LET got == [cb EXCEPT !.token = Some(reply)]
    IN  IF reply.raised # ""
          THEN callback_except(got, reply.raised)
        ELSE IF reply.status # 200
          THEN callback_except(got,
                 HTTPExceptionStr(400, "Failed to get access token", has_str))
        ELSE IF "access_token" \notin DOMAIN reply.json
          THEN callback_except(got, "'access_token'")
        ELSE [callback |-> [got EXCEPT !.pc = "profile"],
              send     |-> <<ProfileRequest(reply.json)>>]

\* mutant of after_profile: returns whatever the profile endpoint answered
after_profile_unchecked(cb, reply, has_str) ==
    LET got == [cb EXCEPT !.profile = Some(reply)]
    IN  IF reply.raised # ""
          THEN callback_except(got, reply.raised)
          ELSE [callback |->
                  [got EXCEPT !.pc = "done",
                     !.out = Some([status |-> 200,
                                   body |-> [user |-> reply.json,
                                             access_token |->
                                               cb.token[1].json.access_token]])],
                send |-> <<>>]

\* the handler from the profile endpoint's answer to its return
after_profile(cb, reply, has_str) ==
    LET got == [cb EXCEPT !.profile = Some(reply)]
    IN  IF reply.raised # ""
          THEN callback_except(got, reply.raised)
        ELSE IF reply.status # 200
          THEN callback_except(got,
                 HTTPExceptionStr(400, "Failed to get user info", has_str))
        ELSE [callback |->
                [got EXCEPT !.pc = "done",
                   !.out = Some([status |-> 200,
                                 body |-> [user |-> reply.json,
                                           access_token |->
                                             cb.token[1].json.access_token]])],
              send |-> <<>>]

\* what Discord's endpoints can do with a request: answer, or fail to be
\* reached (aiohttp raises a client error)
Reply(status, json, text) ==
    [status |-> status, json |-> json, text |-> text, raised |-> ""]

Unreachable ==
    [status |-> 0, json |-> [message |-> ""], text |-> "",
     raised |-> "Cannot connect to host discord.com:443"]

TokenReplies ==
    {Reply(200, [access_token |-> "tokA", token_type |-> "Bearer"],
           "{\"access_token\": \"tokA\", \"token_type\": \"Bearer\"}"),
     Reply(200, [access_token |-> "tokB", token_type |-> "Bearer"],
           "{\"access_token\": \"tokB\", \"token_type\": \"Bearer\"}"),
     Reply(200, [token_type |-> "Bearer"], "{\"token_type\": \"Bearer\"}"),
     Reply(400, [error |-> "invalid_grant"], "{\"error\": \"invalid_grant\"}"),
     Reply(401, [error |-> "invalid_client"], "{\"error\": \"invalid_client\"}"),
     Unreachable}

ProfileReplies ==
    {Reply(200, [id |-> "42", username |-> "artist"],
           "{\"id\": \"42\", \"username\": \"artist\"}"),
     Reply(200, [id |-> "43", username |-> "lead"],
           "{\"id\": \"43\", \"username\": \"lead\"}"),
     Reply(401, [message |-> "401: Unauthorized"],
           "{\"message\": \"401: Unauthorized\"}"),
     Reply(500, [message |-> "Internal Server Error"],
           "{\"message\": \"Internal Server Error\"}"),
     Unreachable}

\* the authorization codes Discord redirects back with
Codes == {"code1", "code2"}

----------------------------------------------------------------------------
(* The archive of old tickets.  A modification time (st_mtime) is a       *)
(* number of minutes since 00:00 UTC of 25 October 2025.                  *)

MinutesPerDay == 1440

ArchiveFirstDay == [year |-> 2025, month |-> 10, day |-> 25]

RECURSIVE ArchiveDate(_)
ArchiveDate(n) ==
    IF n = 0 THEN ArchiveFirstDay ELSE NextDate(ArchiveDate(n - 1))

\* a < b for two str values (comparison by code point, a proper prefix
\* being smaller)
RECURSIVE StrLess(_, _)
StrLess(a, b) ==
    IF Len(b) = 0 THEN FALSE
    ELSE IF Len(a) = 0 THEN TRUE
    ELSE IF SubSeq(a, 1, 1) = SubSeq(b, 1, 1)
      THEN StrLess(SubSeq(a, 2, Len(a)), SubSeq(b, 2, Len(b)))
    ELSE Ord(SubSeq(a, 1, 1)) < Ord(SubSeq(b, 1, 1))

\* the instant daylight saving time ends in the zones that have it:
\* 26 October 2025, 01:00 UTC
DstEnds == MinutesPerDay + 60

\* the offset of local time from UTC at instant t, in minutes: the server's
\* time zone is that of its host
UtcOffset(tz, t) ==
    IF tz = "UTC" THEN 0
    ELSE IF t < DstEnds THEN 120 ELSE 60

TimeZones == {"UTC", "Europe/Prague"}

\* datetime.fromtimestamp(mtime): the naive local time
FromTimestamp(tz, t) == t + UtcOffset(tz, t)

\* datetime.isoformat() of a naive datetime with no seconds
IsoFormat(local) ==
    LET dt == ArchiveDate(local \div MinutesPerDay)
        m == local % MinutesPerDay
    IN  ZeroPad(dt.year, 4) \o "-" \o ZeroPad(dt.month, 2) \o "-"
          \o ZeroPad(dt.day, 2) \o "T" \o ZeroPad(m \div 60, 2) \o ":"
          \o ZeroPad(m % 60, 2) \o ":00"

\* s.lstrip() and s.strip() for spaces
RECURSIVE LStrip(_)
LStrip(s) ==
    IF Len(s) > 0 /\ SubSeq(s, 1, 1) = " "
      THEN LStrip(SubSeq(s, 2, Len(s))) ELSE s

RECURSIVE RStripSpace(_)
RStripSpace(s) ==
    IF Len(s) > 0 /\ SubSeq(s, Len(s), Len(s)) = " "
      THEN RStripSpace(SubSeq(s, 1, Len(s) - 1)) ELSE s

Trim(s) == LStrip(RStripSpace(s))

\* the number of "#" a line begins with
RECURSIVE Hashes(_)
Hashes(line) ==
    IF Len(line) > 0 /\ SubSeq(line, 1, 1) = "#"
      THEN 1 + Hashes(SubSeq(line, 2, Len(line))) ELSE 0

IsHeader(line) == Hashes(line) \in 1..6

IsText(line) == line # "" /\ ~IsHeader(line)

\* markdown.markdown(content) for documents of headers and paragraphs; the
\* content and the HTML are sequences of lines
RECURSIVE MarkdownFrom(_, _)
MarkdownFrom(lines, i) ==
    IF i > Len(lines) THEN <<>>
    ELSE LET line == lines[i]
             n == Hashes(line)
             first == i = 1 \/ ~IsText(lines[i - 1])
             last == i = Len(lines) \/ ~IsText(lines[i + 1])
         IN  (IF line = "" THEN <<>>
              ELSE IF IsHeader(line)
                THEN <<"<h" \o NatStr(n) \o ">"
                         \o Trim(SubSeq(line, n + 1, Len(line)))
                         \o "</h" \o NatStr(n) \o ">">>
              ELSE <<(IF first THEN "<p>" ELSE "") \o line
                       \o (IF last THEN "</p>" ELSE "")>>)
               \o MarkdownFrom(lines, i + 1)

Markdown(lines) == MarkdownFrom(lines, 1)

\* the position of the first occurrence of sub in s, 0 when there is none
IndexOf(s, sub) ==
    IF Contains(s, sub)
      THEN CHOOSE i \in 1..(Len(s) - Len(sub) + 1) :
             /\ SubSeq(s, i, i + Len(sub) - 1) = sub
             /\ \A j \in 1..(i - 1) : SubSeq(s, j, j + Len(sub) - 1) # sub
      ELSE 0

\* s.split(',')
RECURSIVE Split(_)
Split(s) ==
    LET i == IndexOf(s, ",")
    IN  IF i = 0 THEN <<s>>
        ELSE <<SubSeq(s, 1, i - 1)>> \o Split(SubSeq(s, i + 1, Len(s)))

\* content.match(/<label>\s*(.+)$/m): the capture of the first line that
\* holds the label followed by something, None when no line does
RECURSIVE MatchLabel(_, _, _)
MatchLabel(lines, label, i) ==
    IF i > Len(lines) THEN None
    ELSE LET at == IndexOf(lines[i], label)
             rest == IF at = 0 THEN ""
                     ELSE LStrip(SubSeq(lines[i], at + Len(label), Len(lines[i])))
         IN  IF rest # "" THEN Some(rest) ELSE MatchLabel(lines, label, i + 1)

\* content.match(/^#\s*(.+)$/m): as MatchLabel, the "#" at the start of a
\* line
RECURSIVE MatchTitle(_, _)
MatchTitle(lines, i) ==
    IF i > Len(lines) THEN None
    ELSE LET rest == IF StartsWith(lines[i], "#")
                       THEN LStrip(SubSeq(lines[i], 2, Len(lines[i])))
                       ELSE ""
         IN  IF rest # "" THEN Some(rest) ELSE MatchTitle(lines, i + 1)

\* the dashboard's parseTicketContent(content)
parseTicketContent(content) ==
    LET tagsMatch == MatchLabel(content, "Tags:", 1)
    IN  [title   |-> MatchTitle(content, 1),
         author  |-> MatchLabel(content, "Created by:", 1),
         created |-> MatchLabel(content, "Created on:", 1),
         status  |-> MatchLabel(content, "Status:", 1),
         tags    |-> IF tagsMatch = None THEN <<>>
                     ELSE LET parts == Split(tagsMatch[1])
                          IN  [k \in 1..Len(parts) |-> Trim(parts[k])]]

----------------------------------------------------------------------------
(* GET /api/old-tickets and the dashboard page that shows its answer. *)

TicketsDir == "/Users/martintomek/vfx-discord-app/tickets"

\* name.endswith(suffix)
EndsWith(s, suffix) ==
    Len(s) >= Len(suffix)
      /\ SubSeq(s, Len(s) - Len(suffix) + 1, Len(s)) = suffix

\* Path.stem of a name that ends in ".md"
Stem(name) == SubSeq(name, 1, Len(name) - 3)

\* tickets_dir.glob("*.md"): the matching entries in directory order; a
\* directory that does not exist or cannot be listed yields nothing
Glob(fs) ==
    IF fs.dir = "present"
      THEN SelectSeq(fs.files, LAMBDA f : EndsWith(f.name, ".md"))
      ELSE <<>>

\* sorted(tickets, key=last_modified, reverse=True): descending, entries of
\* equal key in their original order
RECURSIVE InsertDesc(_, _)
InsertDesc(sorted, x) ==
    IF sorted = <<>> THEN <<x>>
    ELSE IF StrLess(sorted[1].last_modified, x.last_modified)
      THEN <<x>> \o sorted
    ELSE <<sorted[1]>> \o InsertDesc(Tail(sorted), x)

RECURSIVE SortedDesc(_)
SortedDesc(tickets) ==
    IF tickets = <<>> THEN <<>>
    ELSE InsertDesc(SortedDesc(SubSeq(tickets, 1, Len(tickets) - 1)),
                    tickets[Len(tickets)])

\* the entry appended for one document
OldTicket(tz, f) ==
    [id            |-> Stem(f.name),
     content       |-> Markdown(f.lines),
     file_path     |-> TicketsDir \o "/" \o f.name,
     last_modified |-> IsoFormat(FromTimestamp(tz, f.mtime))]

\* GET /api/old-tickets
get_old_tickets(fs) ==
    LET found == Glob(fs)
        failed == {i \in 1..Len(found) : ~found[i].readable}
    IN  IF failed # {}
          THEN [status |-> 500,
                body |-> [detail |-> "Error reading ticket files: "
                            \o "[Errno 13] Permission denied: '"
                            \o TicketsDir \o "/" \o found[Min(failed)].name
                            \o "'"]]
          ELSE [status |-> 200,
                body |-> SortedDesc([i \in 1..Len(found) |->
                                       OldTicket(fs.tz, found[i])])]

\* the dashboard's loadOldTickets(): what the page shows for an answer
loadOldTickets(answer) ==
    IF answer.status # 200
      THEN [view |-> "error", cards |-> <<>>]
    ELSE IF Len(answer.body) = 0
      THEN [view |-> "empty", cards |-> <<>>]
    ELSE [view |-> "list",
          cards |-> [i \in 1..Len(answer.body) |->
                       parseTicketContent(answer.body[i].content)]]

\* the documents found in the archive
HeaderDocument ==
    <<"# Fix lighting bug", "Created by: alice", "Status: closed",
      "Tags: lighting, bug">>

SpacedDocument ==
    <<"# Old render", "", "Created by: bob", "", "Created on: 2023-05-02",
      "", "Rendering stops at frame 100">>

\* the files written to the archive directory; the second and the third
\* are modified in the hour before and in the hour after 01:00 UTC of
\* 26 October 2025
ArchiveFiles ==
    {[name |-> "fix-lighting.md", lines |-> HeaderDocument,
      mtime |-> 600, readable |-> TRUE],
     [name |-> "old-render.md", lines |-> SpacedDocument,
      mtime |-> MinutesPerDay + 30, readable |-> TRUE],
     [name |-> "cache.md", lines |-> <<"Cache is stale">>,
      mtime |-> MinutesPerDay + 70, readable |-> TRUE],
     [name |-> "locked.md", lines |-> HeaderDocument,
      mtime |-> 900, readable |-> FALSE],
     [name |-> "notes.txt", lines |-> <<"not a ticket">>,
      mtime |-> 1200, readable |-> TRUE]}

DirStates == {"present", "missing", "unreadable"}

\* no archive directory, and a page that has loaded nothing
NoArchive == [tz |-> "UTC", dir |-> "missing", files |-> <<>>]

NoPage == [status |-> 0, body |-> <<>>, view |-> "", cards |-> <<>>,
           seen |-> None]

----------------------------------------------------------------------------
(* The event loop.  Every request is handled in a task of its own; the    *)
(* loop runs one task at a time and takes the next one only when the      *)
(* running task suspends at an await or ends.                             *)

Step(what, awaits) == [what |-> what, awaits |-> awaits]

\* create_ticket with the ticket written to a store that is awaited
HandlerSteps_awaiting_store(endpoint) ==
    CASE endpoint = "create_ticket" ->
           <<Step("ticket_id = hash(datetime.now())", FALSE),
             Step("created_at = datetime.now()", FALSE),
             Step("await store.insert(ticket)", TRUE),
             Step("updated_at = datetime.now()", FALSE),
             Step("return TicketResponse", FALSE)>>
      [] endpoint = "update_ticket" ->
           <<Step("created_at = datetime.now() - timedelta(days=1)", FALSE),
             Step("await store.update(ticket)", TRUE),
             Step("updated_at = datetime.now()", FALSE),
             Step("return TicketResponse", FALSE)>>
      [] endpoint = "add_ticket_comment" ->
           <<Step("comment_id = hash(datetime.now())", FALSE),
             Step("await store.append(comment)", TRUE),
             Step("return", FALSE)>>
      [] endpoint = "assign_ticket" ->
           <<Step("await store.update(ticket)", TRUE),
             Step("return", FALSE)>>

\* the steps of the body of a mutating handler, in order, and whether the
\* step awaits
HandlerSteps(endpoint) ==
    CASE endpoint = "create_ticket" ->
           <<Step("ticket_id = hash(datetime.now())", FALSE),
             Step("created_at = datetime.now()", FALSE),
             Step("updated_at = datetime.now()", FALSE),
             Step("return TicketResponse", FALSE)>>
      [] endpoint = "update_ticket" ->
           <<Step("created_at = datetime.now() - timedelta(days=1)", FALSE),
             Step("updated_at = datetime.now()", FALSE),
             Step("return TicketResponse", FALSE)>>
      [] endpoint = "add_ticket_comment" ->
           <<Step("comment_id = hash(datetime.now())", FALSE),
             Step("return", FALSE)>>
      [] endpoint = "assign_ticket" ->
           <<Step("return", FALSE)>>

\* the handlers of create, update, addComment and assign
MutatingEndpoints ==
    {"create_ticket", "update_ticket", "add_ticket_comment", "assign_ticket"}

\* the ticket ids concurrent requests name
LoopIds == {"TICKET-1", "TICKET-2"}

\* a task that handles no request
NoTask == [endpoint |-> "", id |-> "", pc |-> 0]

----------------------------------------------------------------------------
(* The Discord bot.  The bot record holds the module-level state (token,  *)
(* bot object), the background task, and what discord.py's client         *)
(* reports: its websocket, its ready flag and its latency.                *)

\* `if x:` for an Optional[str]
Truthy(x) == x # None /\ x[1] # ""

\* float values: nan, inf, and finite values given in millionths
NaN == [kind |-> "nan", value |-> 0]
Inf == [kind |-> "inf", value |-> 0]
Float(millionths) == [kind |-> "finite", value |-> millionths]

\* the values DISCORD_BOT_TOKEN can have in the environment
BotTokens == {None, Some(""), Some("bot-token")}

\* module import: bot = None, replaced by commands.Bot(...) when the token
\* is truthy
InitializeBot(token) ==
    [token   |-> token,
     exists  |-> Truthy(token),
     phase   |-> "loading",
     started |-> 0,
     task    |-> "none",
     logged  |-> 0,
     ws      |-> "none",
     ready   |-> FALSE,
     latency |-> NaN]

\* startup_event that creates the task whatever the configuration
startup_event_unconditional(b) ==
    [b EXCEPT !.phase = "serving", !.started = @ + 1, !.task = "running"]

\* startup_event: the bot task is created when bot and token are truthy
startup_event(b) ==
    IF b.exists /\ Truthy(b.token)
      THEN [b EXCEPT !.phase = "serving", !.started = @ + 1,
                     !.task = "running"]
      ELSE [b EXCEPT !.phase = "serving"]

\* handle_bot_error(task) for a task that ended with an exception:
\* task.result() raises it, the except clause logs it
handle_bot_error(b) == [b EXCEPT !.logged = @ + 1]

\* Client.latency: nan without a websocket, else the websocket's latency,
\* which is inf until the first heartbeat is acknowledged
Latency(b) == IF b.ws = "none" THEN NaN ELSE b.latency

\* round(x * 1000, 2) of a float: nan and inf stay as they are, a finite
\* value is rounded to hundredths
RoundMs(x) ==
    IF x.kind # "finite" THEN x
    ELSE Float(((x.value * 1000 + 5000) \div 10000) * 10000)

\* JSONResponse.render: json.dumps(content, allow_nan=False) raises
\* ValueError for nan and inf, after the handler has returned
Render(content) ==
    IF "latency" \in DOMAIN content /\ content.latency.kind \in {"nan", "inf"}
      THEN InternalServerError
      ELSE Ok(content)

\* GET /api/bot/status
get_bot_status(b) ==
    IF ~b.exists
      THEN Render([status |-> "disabled", reason |-> "Bot not initialized"])
      ELSE Render([status  |-> IF b.ready THEN "online" ELSE "connecting",
                   latency |-> RoundMs(Latency(b))])

\* on_ready up to its await: the category is created when the guild is
\* found and the lookup among its categories finds none named Tickets
on_ready(g) ==
    IF g.member /\ g.tickets = 0 THEN "creating" ELSE "done"

\* no guild, no bot: the state when the bot is not looked at
NoBot == InitializeBot(None)

NoGuild == [member |-> FALSE, tickets |-> 0, runs |-> <<>>]

NoStatus == [status |-> 0, body |-> <<>>, seen |-> None]

----------------------------------------------------------------------------
(* The state machine. *)

NoExchange ==
    [op |-> "none", endpoint |-> "", req |-> Request("", <<>>, NoQuery, NoJson),
     status |-> 0, body |-> <<>>, before |-> None]

\* no request to /auth/login has been answered
NoLogin == [status |-> 0, location |-> None]

\* the process after start-up, in environment env
Started(env) ==
    /\ now = 0
    /\ pydantic_v2 \in BOOLEAN
    /\ created = <<>>
    /\ latest = <<>>
    /\ resp = NoExchange
    /\ config = Configure(env)
    /\ login = NoLogin
    /\ callback = Idle
    /\ sent = <<>>

\* nothing but the ticket API and the OAuth gateway is in use
Elsewhere ==
    /\ archive = NoArchive
    /\ page = NoPage

\* the event loop handles no request step by step
LoopIdle ==
    /\ tasks = [t \in 1..MaxTasks |-> NoTask]
    /\ running = 0

\* the bot is not looked at
BotIdle ==
    /\ bot = NoBot
    /\ guild = NoGuild
    /\ botStatus = NoStatus

Init == Started(NoEnv) /\ Elsewhere /\ LoopIdle /\ BotIdle

\* the fields of a ticket an update can change
Mutable(ticket) == [f \in TicketUpdateFields |-> ticket[f]]

\* the ticket id an exchange is about: the one the path names, or the one
\* the created ticket carries
TicketId(req, out) ==
    IF Len(req.path) >= 3 THEN Some(req.path[3])
    ELSE IF req.method = "POST" /\ out.status = 200 THEN Some(out.body.id)
    ELSE None

\* what create/update had last returned for that id before the exchange
Before(id) ==
    IF id # None /\ id[1] \in DOMAIN latest THEN Some(latest[id[1]]) ELSE None

\* the first successful create: the record follows its ticket
Recorded(op, out) ==
    op = "create" /\ out.status = 200 /\ created = <<>>

\* The application answers req: the router picks the endpoint, the endpoint
\* reads the clock and computes the response.
Serve(op, req) ==
    LET endpoint == Dispatch(req.method, req.path)
    IN  \E r \in Readings(NowCalls(endpoint)) :
        \E h \in (IF UsesHash(endpoint) THEN HashValues ELSE {0}) :
          LET out == Handle(endpoint, req, r, h, pydantic_v2)
          IN  /\ now' = IF Len(r) = 0 THEN now ELSE r[Len(r)]
              /\ resp' = [op |-> op, endpoint |-> endpoint, req |-> req,
                          status |-> out.status, body |-> out.body,
                          before |-> Before(TicketId(req, out))]
              /\ created' = IF Recorded(op, out)
                             THEN Append(created, out.body) ELSE created
              /\ latest' =
                   IF Recorded(op, out)
                     THEN (out.body.id :> [ticket |-> Mutable(out.body),
                                           update |-> None]) @@ latest
                   ELSE IF op = "update" /\ out.status = 200
                           /\ req.path[3] \in DOMAIN latest
                     THEN (req.path[3] :> [ticket |-> Mutable(out.body),
                                           update |-> Some(req.json)]) @@ latest
                   ELSE latest
              /\ UNCHANGED pydantic_v2
              /\ UNCHANGED oauthVars
              /\ UNCHANGED archiveVars
    /\ UNCHANGED loopVars
    /\ UNCHANGED botVars

Create ==
    \E req \in CreateRequests : Serve("create", req)

Get ==
    \E id \in KnownIds \cup UnknownIds :
      Serve("get", Request("GET", <<"api", "tickets", id>>, NoQuery, NoJson))

List ==
    \E filters \in ListFilters :
      Serve("list", Request("GET", <<"api", "tickets">>,
                            ListQuery(filters), NoJson))

Update ==
    \E id \in KnownIds \cup UnknownIds, json \in UpdateBodies :
      Serve("update", Request("PUT", <<"api", "tickets", id>>, NoQuery, json))

AddComment ==
    \E id \in KnownIds \cup UnknownIds, json \in CommentBodies :
      Serve("addComment", Request("POST", <<"api", "tickets", id, "comments">>,
                                  NoQuery, json))

History ==
    \E id \in KnownIds \cup UnknownIds :
      Serve("history", Request("GET", <<"api", "tickets", id, "history">>,
                               NoQuery, NoJson))

Assign ==
    \E id \in KnownIds \cup UnknownIds, a \in Assignees :
      Serve("assign", Request("POST", <<"api", "tickets", id, "assign">>,
                              [assignee |-> a], NoJson))

Statistics ==
    Serve("statistics", Request("GET", <<"api", "tickets", "statistics">>,
                                NoQuery, NoJson))

\* time passes between two requests
Tick ==
    /\ now + ClockStep <= MaxClock
    /\ now' = now + ClockStep
    /\ UNCHANGED <<pydantic_v2, created, latest, resp>>
    /\ UNCHANGED oauthVars
    /\ UNCHANGED archiveVars
    /\ UNCHANGED loopVars
    /\ UNCHANGED botVars

Next ==
    \/ Create
    \/ Get
    \/ List
    \/ Update
    \/ AddComment
    \/ History
    \/ Assign
    \/ Statistics
    \/ Tick

Spec == Init /\ [][Next]_vars

----------------------------------------------------------------------------
(* The OAuth gateway as a state machine. *)

\* GET /auth/login is answered
Login ==
    /\ login' = discord_login
    /\ UNCHANGED <<config, callback, sent>>
    /\ UNCHANGED ticketVars
    /\ UNCHANGED archiveVars
    /\ UNCHANGED loopVars
    /\ UNCHANGED botVars

\* GET /auth/callback?code=... arrives; the handler posts the code
CallbackBegin ==
    /\ callback.pc \in {"idle", "done"}
    /\ \E code \in Codes :
         LET step == callback_begin(config, code)
         IN  /\ callback' = step.callback
             /\ sent' = step.send
    /\ UNCHANGED <<config, login>>
    /\ UNCHANGED ticketVars
    /\ UNCHANGED archiveVars
    /\ UNCHANGED loopVars
    /\ UNCHANGED botVars

\* the token endpoint's answer resumes the handler
TokenReply ==
    /\ callback.pc = "token"
    /\ \E reply \in TokenReplies, has_str \in BOOLEAN :
         LET step == after_token(callback, reply, has_str)
         IN  /\ callback' = step.callback
             /\ sent' = sent \o step.send
    /\ UNCHANGED <<config, login>>
    /\ UNCHANGED ticketVars
    /\ UNCHANGED archiveVars
    /\ UNCHANGED loopVars
    /\ UNCHANGED botVars

\* the profile endpoint's answer resumes the handler
ProfileReply ==
    /\ callback.pc = "profile"
    /\ \E reply \in ProfileReplies, has_str \in BOOLEAN :
         LET step == after_profile(callback, reply, has_str)
         IN  /\ callback' = step.callback
             /\ sent' = sent \o step.send
    /\ UNCHANGED <<config, login>>
    /\ UNCHANGED ticketVars
    /\ UNCHANGED archiveVars
    /\ UNCHANGED loopVars
    /\ UNCHANGED botVars

OAuthInit ==
    (\E env \in Environments : Started(env)) /\ Elsewhere /\ LoopIdle /\ BotIdle

OAuthNext ==
    \/ Login
    \/ CallbackBegin
    \/ TokenReply
    \/ ProfileReply

OAuthSpec == OAuthInit /\ [][OAuthNext]_vars

----------------------------------------------------------------------------
(* The archive as a state machine. *)

\* a file appears in the archive directory, anywhere in its listing
WriteFile ==
    /\ archive.dir # "missing"
    /\ Len(archive.files) < MaxFiles
    /\ \E f \in ArchiveFiles, at \in 0..Len(archive.files) :
         /\ \A i \in DOMAIN archive.files : archive.files[i].name # f.name
         /\ archive' = [archive EXCEPT !.files =
                          SubSeq(@, 1, at) \o <<f>> \o SubSeq(@, at + 1, Len(@))]
    /\ UNCHANGED page
    /\ UNCHANGED ticketVars
    /\ UNCHANGED oauthVars
    /\ UNCHANGED loopVars
    /\ UNCHANGED botVars

\* the dashboard fetches /api/old-tickets and renders the answer
LoadOldTickets ==
    /\ LET answer == get_old_tickets(archive)
           shown == loadOldTickets(answer)
       IN  page' = [status |-> answer.status, body |-> answer.body,
                    view |-> shown.view, cards |-> shown.cards,
                    seen |-> Some(archive)]
    /\ UNCHANGED archive
    /\ UNCHANGED ticketVars
    /\ UNCHANGED oauthVars
    /\ UNCHANGED loopVars
    /\ UNCHANGED botVars

ArchiveInit ==
    /\ Started(NoEnv)
    /\ \E tz \in TimeZones, dir \in DirStates :
         archive = [tz |-> tz, dir |-> dir, files |-> <<>>]
    /\ page = NoPage
    /\ LoopIdle
    /\ BotIdle

ArchiveNext ==
    \/ WriteFile
    \/ LoadOldTickets

ArchiveSpec == ArchiveInit /\ [][ArchiveNext]_vars

----------------------------------------------------------------------------
(* The event loop as a state machine. *)

\* a request for a mutating operation arrives: a task is created for it
Arrive ==
    \E t \in 1..MaxTasks, e \in MutatingEndpoints, id \in LoopIds :
      /\ tasks[t] = NoTask
      /\ tasks' = [tasks EXCEPT ![t] = [endpoint |-> e, id |-> id, pc |-> 0]]
      /\ UNCHANGED running
      /\ UNCHANGED <<ticketVars, oauthVars, archiveVars, botVars>>

\* the loop runs the next step of a task: of the running task, or of any
\* task when none is running; a step that awaits, and the last step, give
\* the loop back
Run ==
    \E t \in 1..MaxTasks :
      /\ tasks[t] # NoTask
      /\ running \in {0, t}
      /\ LET steps == HandlerSteps(tasks[t].endpoint)
             pc == tasks[t].pc + 1
         IN  /\ tasks' = [tasks EXCEPT ![t] =
                            IF pc = Len(steps) THEN NoTask
                            ELSE [@ EXCEPT !.pc = pc]]
             /\ running' = IF pc = Len(steps) \/ steps[pc].awaits
                             THEN 0 ELSE t
      /\ UNCHANGED <<ticketVars, oauthVars, archiveVars, botVars>>

LoopInit == Started(NoEnv) /\ Elsewhere /\ LoopIdle /\ BotIdle

LoopNext ==
    \/ Arrive
    \/ Run

LoopSpec == LoopInit /\ [][LoopNext]_vars

----------------------------------------------------------------------------
(* The bot as a state machine. *)

BotFrame == UNCHANGED <<ticketVars, oauthVars, archiveVars, loopVars>>

\* the application starts: startup_event runs
Startup ==
    /\ bot.phase = "loading"
    /\ bot' = startup_event(bot)
    /\ UNCHANGED <<guild, botStatus>>
    /\ BotFrame

\* bot.start logged in and opened the gateway websocket
Connect ==
    /\ bot.task = "running" /\ bot.ws = "none"
    /\ bot' = [bot EXCEPT !.ws = "open", !.latency = Inf]
    /\ UNCHANGED <<guild, botStatus>>
    /\ BotFrame

\* the gateway acknowledges a heartbeat
HeartbeatAck ==
    /\ bot.task = "running" /\ bot.ws = "open"
    /\ bot' = [bot EXCEPT !.latency = Float(41537)]
    /\ UNCHANGED <<guild, botStatus>>
    /\ BotFrame

\* the gateway sends READY: the client is ready and a run of on_ready
\* starts, up to its await
Ready ==
    /\ bot.task = "running" /\ bot.ws = "open" /\ ~bot.ready
    /\ Len(guild.runs) < MaxReady
    /\ bot' = [bot EXCEPT !.ready = TRUE]
    /\ guild' = [guild EXCEPT !.runs = Append(@, on_ready(guild))]
    /\ UNCHANGED botStatus
    /\ BotFrame

\* the connection is lost and opened again with a new session
Reconnect ==
    /\ bot.task = "running" /\ bot.ws = "open" /\ bot.ready
    /\ bot' = [bot EXCEPT !.ready = FALSE, !.latency = Inf]
    /\ UNCHANGED <<guild, botStatus>>
    /\ BotFrame

\* the await of guild.create_category returns in a run of on_ready
CategoryCreated ==
    /\ \E r \in DOMAIN guild.runs :
         /\ guild.runs[r] = "creating"
         /\ guild' = [guild EXCEPT !.tickets = @ + 1, !.runs[r] = "done"]
    /\ UNCHANGED <<bot, botStatus>>
    /\ BotFrame

\* bot.start raises (login refused, connection closed for good): the client
\* is closed, the task ends, its done-callback runs
Crash ==
    /\ bot.task = "running"
    /\ bot' = handle_bot_error(
                 [bot EXCEPT !.task = "failed", !.ready = FALSE,
                             !.ws = IF @ = "none" THEN "none" ELSE "closed"])
    /\ UNCHANGED <<guild, botStatus>>
    /\ BotFrame

\* GET /api/bot/status is answered
GetBotStatus ==
    /\ bot.phase = "serving"
    /\ LET out == get_bot_status(bot)
       IN  botStatus' = [status |-> out.status, body |-> out.body,
                         seen |-> Some(bot)]
    /\ UNCHANGED <<bot, guild>>
    /\ BotFrame

BotInit ==
    /\ Started(NoEnv) /\ Elsewhere /\ LoopIdle
    /\ \E token \in BotTokens : bot = InitializeBot(token)
    /\ \E member \in BOOLEAN, tickets \in {0, 1} :
         guild = [member |-> member, tickets |-> tickets, runs |-> <<>>]
    /\ botStatus = NoStatus

BotNext ==
    \/ Startup
    \/ Connect
    \/ HeartbeatAck
    \/ Ready
    \/ Reconnect
    \/ CategoryCreated
    \/ Crash
    \/ GetBotStatus

BotSpec == BotInit /\ [][BotNext]_vars

----------------------------------------------------------------------------
(* The contract of the ticket store, stated over the record of exchanges. *)

Succeeded(op) == resp.op = op /\ resp.status = 200

\* the exchange names the id of the ticket the record follows
AboutCreated == /\ created # <<>>
                /\ Len(resp.req.path) >= 3
                /\ resp.req.path[3] = created[1].id

\* the filters given in the query of the last list request hold of ticket t
Matches(t, query) ==
    \A k \in DOMAIN query :
        IF k = "assigned_to" THEN t[k] = Some(query[k]) ELSE t[k] = query[k]

\* field f is present (non-null) in an update payload
Present(json, f) == f \in DOMAIN json /\ json[f] # None

\* the value a present field of an update payload gives the ticket
PayloadValue(json, f) ==
    IF f \in {"assigned_to", "due_date"} THEN json[f] ELSE json[f][1]

\* C1: the id a create returns differs from the id every earlier create
\* returned (resp.before is what the record held for the returned id when
\* the create was answered).
C1_CreateIdsUnique ==
    Succeeded("create") => resp.before = None

RoundTripFields == {"title", "description", "status", "priority", "type",
    "created_by", "project_id", "tags", "environment", "created_at"}

\* C2: get with the id create returned, no update in between, returns a
\* ticket whose fields equal those of the ticket create returned.
C2_GetReturnsCreated ==
    (resp.op = "get" /\ AboutCreated /\ resp.before[1].update = None)
      => /\ resp.status = 200
         /\ \A f \in RoundTripFields : resp.body[f] = created[1][f]

\* C3: get, update, addComment, assign and history on an id no create has
\* returned fail with 404.
C3_UnknownIdNotFound ==
    (/\ resp.op \in {"get", "update", "addComment", "assign", "history"}
     /\ resp.req.path[3] \in UnknownIds)
      => resp.status = 404

\* C4: the ticket update returns has the id, created_by and created_at of
\* the ticket create returned.
C4_UpdateKeepsIdentity ==
    (Succeeded("update") /\ AboutCreated)
      => /\ resp.body.id = created[1].id
         /\ resp.body.created_by = created[1].created_by
         /\ resp.body.created_at = created[1].created_at

\* C5: in the ticket update returns, a field absent from the payload keeps
\* the value the ticket had before, a field present takes the payload's.
C5_PartialUpdate ==
    (Succeeded("update") /\ AboutCreated)
      => \A f \in TicketUpdateFields :
           resp.body[f] = IF Present(resp.req.json, f)
                          THEN PayloadValue(resp.req.json, f)
                          ELSE resp.before[1].ticket[f]

\* the last successful update of the followed ticket set status resolved
ResolvedByUpdate ==
    /\ AboutCreated
    /\ resp.before[1].update # None
    /\ Present(resp.before[1].update[1], "status")
    /\ resp.before[1].update[1].status = Some("resolved")

\* C6: after update(id, {status: resolved}) succeeded, get(id) returns status
\* resolved and an updated_at strictly greater than the created_at create
\* returned.
C6_GetAfterResolve ==
    (resp.op = "get" /\ ResolvedByUpdate)
      => /\ resp.status = 200
         /\ resp.body.status = "resolved"
         /\ resp.body.updated_at > created[1].created_at

\* the tickets of the last response
ReturnedTickets ==
    IF resp.status # 200 THEN {}
    ELSE IF resp.op \in {"create", "get", "update"} THEN {resp.body}
    ELSE IF resp.op = "list" THEN {resp.body[i] : i \in 1..Len(resp.body)}
    ELSE {}

\* C7: every ticket create, get, list and update return has
\* updated_at >= created_at (the clock never goes backwards).
C7_UpdatedNotBeforeCreated ==
    \A t \in ReturnedTickets : t.updated_at >= t.created_at

\* C7 witness: a create answered while the clock advanced between the
\* reading for created_at and the reading for updated_at.
C7_Witness ==
    Succeeded("create") /\ resp.body.created_at < resp.body.updated_at

\* C8: list(status = s) returns only tickets of status s, and list without a
\* filter returns every ticket created so far.
C8_ListStatusFilter ==
    Succeeded("list")
      => /\ "status" \in DOMAIN resp.req.query
              => \A t \in ReturnedTickets : t.status = resp.req.query.status
         /\ (resp.req.query = NoQuery /\ created # <<>>)
              => \E t \in ReturnedTickets : t.id = created[1].id

\* C9: the filters of list are conjunctive: a created ticket is in the
\* result exactly when it matches every filter given, and the result holds
\* no ticket that fails a filter.
C9_ListFiltersConjunctive ==
    Succeeded("list")
      => /\ \A t \in ReturnedTickets : Matches(t, resp.req.query)
         /\ created # <<>>
              => (Matches(created[1], resp.req.query)
                    <=> \E t \in ReturnedTickets : t.id = created[1].id)

\* C10: every ticket create returns has status open, time_spent 0.0 and a
\* non-empty id, whatever status the request body carries.
C10_CreatedOpen ==
    Succeeded("create")
      => /\ resp.body.status = "open"
         /\ resp.body.time_spent = Some(0)
         /\ resp.body.id # ""


\* the query strings a client can send with a create request
CreateQueries == {NoQuery, [current_user |-> "artist7"], [current_user |-> "lead1"]}

\* C11: the created_by of a created ticket is chosen by the server: the
\* create request just answered, sent again at the same instants with any
\* other query string and nothing else changed, returns the same created_by
\* (and the same created_at).
C11_CreatedByServerChosen ==
    Succeeded("create")
      => \A q \in CreateQueries :
           LET r == <<resp.body.created_at, resp.body.created_at,
                      resp.body.updated_at>>
               other == Handle(resp.endpoint, [resp.req EXCEPT !.query = q],
                               r, 0, pydantic_v2)
           IN  /\ other.status = 200
               /\ other.body.created_at = resp.body.created_at
               /\ other.body.created_by = resp.body.created_by

----------------------------------------------------------------------------
(* The OAuth gateway: what the claims say of it. *)

\* the callback invocation has been answered
CallbackAnswered == callback.pc = "done"

\* the upstream endpoint answered (rather than being unreachable)
AnsweredBy(reply) == reply # None /\ reply[1].raised = ""

\* the number of requests of a method among those sent
Count(requests, method) ==
    Cardinality({i \in DOMAIN requests : requests[i].method = method})

\* the answer of the callback carries neither a token nor a profile
NoCredentials(out) ==
    /\ "access_token" \notin DOMAIN out.body
    /\ "user" \notin DOMAIN out.body

\* C12: the callback is answered 400, with no access_token and no profile,
\* whenever the token endpoint answered with a status other than 200, and
\* whenever it answered 200 but the profile endpoint answered with a status
\* other than 200.
C12_UpstreamFailureIs400 ==
    (/\ CallbackAnswered
     /\ \/ AnsweredBy(callback.token) /\ callback.token[1].status # 200
        \/ /\ AnsweredBy(callback.token) /\ callback.token[1].status = 200
           /\ AnsweredBy(callback.profile) /\ callback.profile[1].status # 200)
      => /\ callback.out[1].status = 400
         /\ NoCredentials(callback.out[1])

\* a callback answered after the token endpoint said 200 and the profile
\* endpoint said 500
C12_Witness ==
    /\ CallbackAnswered
    /\ AnsweredBy(callback.token) /\ callback.token[1].status = 200
    /\ AnsweredBy(callback.profile) /\ callback.profile[1].status = 500
    /\ callback.out[1].status = 400

\* C13: when the token endpoint answers with a status other than 200, the
\* detail of the callback's error carries the body the token endpoint sent.
C13_DetailCarriesUpstreamBody ==
    (/\ CallbackAnswered
     /\ AnsweredBy(callback.token) /\ callback.token[1].status # 200)
      => /\ "detail" \in DOMAIN callback.out[1].body
         /\ Contains(callback.out[1].body.detail, callback.token[1].text)

\* C14: a profile request is sent only after the token request was answered
\* 200, and its Authorization header is "Bearer " followed by the
\* access_token of that answer; a successful callback returns that same
\* access_token, and as user the body the profile endpoint answered.
C14_ProfileAfterToken ==
    /\ \A i \in DOMAIN sent :
         sent[i].method = "GET"
           => /\ i > 1 /\ sent[1].method = "POST"
              /\ AnsweredBy(callback.token) /\ callback.token[1].status = 200
              /\ sent[i].url = ProfileUrl
              /\ "access_token" \in DOMAIN callback.token[1].json
              /\ sent[i].headers[1].Authorization
                   = "Bearer " \o callback.token[1].json.access_token
    /\ (CallbackAnswered /\ callback.out[1].status = 200)
         => /\ callback.out[1].body.access_token
                = callback.token[1].json.access_token
            /\ callback.out[1].body.user = callback.profile[1].json

\* a successful callback for the second token and the second profile
C14_Witness ==
    /\ CallbackAnswered /\ callback.out[1].status = 200
    /\ callback.out[1].body.access_token = "tokB"
    /\ callback.out[1].body.user.id = "43"
    /\ sent[2].headers[1].Authorization = "Bearer tokB"

C16_SameRedirectUri ==
    (login.status # 0 /\ sent # <<>>)
      => /\ login.status \in 300..399
         /\ Contains(login.location[1],
                     "&redirect_uri=" \o Quote(sent[1].data[1].redirect_uri)
                       \o "&")
         /\ sent[1].data[1].client_id # None
         /\ Contains(login.location[1],
                     "?client_id=" \o sent[1].data[1].client_id[1] \o "&")

\* C17: every GET /auth/login is answered with a redirect to the
\* authorization endpoint, with response_type=code.
C17_LoginRedirects ==
    login.status # 0
      => /\ login.status \in 300..399
         /\ StartsWith(login.location[1], AuthorizeUrl \o "?")
         /\ Contains(login.location[1], "&response_type=code&")

----------------------------------------------------------------------------
(* Routing and history of the ticket API: what the claims say of them. *)

\* the endpoints registered for a method and a path, in registration order
Registered(method, path) ==
    LET m == Matching(method, path)
    IN  [k \in 1..Cardinality(m) |->
           Routes[CHOOSE i \in m : Cardinality({j \in m : j <= i}) = k].endpoint]

\* C18: GET /api/tickets/statistics is answered by the statistics operation
\* with the aggregate counts by status and by priority, not by get-ticket.
C18_StatisticsRoute ==
    resp.op = "statistics"
      => /\ resp.endpoint = "get_ticket_statistics"
         /\ resp.status = 200
         /\ "status_breakdown" \in DOMAIN resp.body
         /\ "priority_breakdown" \in DOMAIN resp.body

\* C19 as the specification states it: POST /api/tickets and GET
\* /api/tickets are each registered twice, and the handler registered later
\* answers.
C19_LaterRegistrationAnswers ==
    resp.op \in {"create", "list"}
      => LET reg == Registered(resp.req.method, resp.req.path)
         IN  Len(reg) = 2 /\ resp.endpoint = reg[2]

\* C19 amended: POST /api/tickets and GET /api/tickets are each registered
\* twice, and the handler registered first answers every request: create
\* requests are answered by the first create_ticket, list requests by
\* list_tickets, and the later registrations answer none.
C19_FirstRegistrationAnswers ==
    /\ resp.op = "create"
         => /\ Registered("POST", resp.req.path)
                 = <<"create_ticket", "create_ticket_2">>
            /\ resp.endpoint = "create_ticket"
    /\ resp.op = "list"
         => /\ Registered("GET", resp.req.path) = <<"list_tickets", "get_tickets">>
            /\ resp.endpoint = "list_tickets"
    /\ resp.endpoint \notin {"create_ticket_2", "get_tickets"}

\* a list request answered after a ticket was created
C19_Witness ==
    /\ resp.op = "list" /\ resp.endpoint = "list_tickets"
    /\ created # <<>> /\ created[1].created_by = "artist7"

\* C20: the events history(id) returns are ordered oldest first (the
\* timestamps of consecutive events never decrease) and the first event is
\* of type created.
C20_HistoryOldestFirst ==
    Succeeded("history")
      => LET events == resp.body.history
         IN  /\ Len(events) >= 1
             /\ events[1].type = "created"
             /\ \A i \in 1..(Len(events) - 1) :
                   events[i].timestamp <= events[i + 1].timestamp

\* a history of three events read while the clock advanced
C20_Witness ==
    /\ Succeeded("history")
    /\ Len(resp.body.history) = 3
    /\ resp.body.history[1].timestamp < resp.body.history[3].timestamp
    /\ now > 0

----------------------------------------------------------------------------
(* Assignment and comments: what the claims say of them. *)

\* the answer to request req, were it sent next: the handlers keep no
\* state, so it is the handler's result for some readings of the clock
NextAnswers(req, n) ==
    {Handle(Dispatch(req.method, req.path), req, r, 0, pydantic_v2) :
       r \in Readings(n)}

\* C21: after assign(id, a) succeeded on the ticket the record follows, a
\* get(id) sent next returns the ticket with assigned_to = a and with every
\* other updatable field as create or update last returned it.
C21_AssignSetsAssignee ==
    (Succeeded("assign") /\ AboutCreated)
      => \A got \in NextAnswers(
                      Request("GET", <<"api", "tickets", resp.req.path[3]>>,
                              NoQuery, NoJson), 2) :
           /\ got.status = 200
           /\ got.body.assigned_to = Some(resp.req.query.assignee)
           /\ \A f \in TicketUpdateFields \ {"assigned_to"} :
                 got.body[f] = resp.before[1].ticket[f]

\* C22: addComment(id, c) on the ticket the record follows returns a comment
\* id and appends c: a history(id) sent next ends with a comment_added
\* event that carries the content of c.
C22_CommentAppended ==
    (Succeeded("addComment") /\ AboutCreated)
      => /\ "comment_id" \in DOMAIN resp.body
         /\ \A got \in NextAnswers(
                        Request("GET", <<"api", "tickets", resp.req.path[3],
                                         "history">>, NoQuery, NoJson), 3) :
              /\ got.status = 200
              /\ LET last == got.body.history[Len(got.body.history)]
                 IN  /\ last.type = "comment_added"
                     /\ Contains(last.details, resp.req.json.content)

----------------------------------------------------------------------------
(* The enumerations: what the claim says of them. *)

\* the request carries a value outside its enumeration for status, priority
\* or type
BadEnum(op, json) ==
    IF op = "create"
      THEN \/ "status" \in DOMAIN json /\ json.status \notin TicketStatus
           \/ "priority" \in DOMAIN json /\ json.priority \notin TicketPriority
           \/ "type" \in DOMAIN json /\ json.type \notin TicketType
      ELSE \/ Present(json, "status") /\ json.status[1] \notin TicketStatus
           \/ Present(json, "priority") /\ json.priority[1] \notin TicketPriority

----------------------------------------------------------------------------
(* The archive: what the claims say of it. *)

\* the page has loaded an answer, computed from the archive page.seen[1]
Loaded == page.status # 0

\* the *.md documents the archive held when the page loaded
Documents ==
    LET fs == page.seen[1]
    IN  {fs.files[i] : i \in {j \in DOMAIN fs.files :
                                 EndsWith(fs.files[j].name, ".md")}}

\* the modification time of the document an entry of the answer is about
ModifiedAt(entry) ==
    (CHOOSE f \in Documents : Stem(f.name) = entry.id).mtime

\* C23: the list GET /api/old-tickets returns from a readable archive holds
\* exactly one entry per *.md document and is sorted by modification time
\* descending: no entry was modified earlier than the entry listed after it.
C23_ArchiveSortedNewestFirst ==
    (Loaded /\ page.seen[1].dir = "present"
            /\ \A f \in Documents : f.readable)
      => /\ page.status = 200
         /\ Len(page.body) = Cardinality(Documents)
         /\ {page.body[i].id : i \in DOMAIN page.body}
              = {Stem(f.name) : f \in Documents}
         /\ \A i \in 1..(Len(page.body) - 1) :
              ModifiedAt(page.body[i]) >= ModifiedAt(page.body[i + 1])

\* C24: when the archive directory is missing or unreadable, or one of its
\* documents cannot be read, GET /api/old-tickets answers 500 with the
\* message of the exception, never 200.
C24_ArchiveFailureIs500 ==
    (Loaded /\ (\/ page.seen[1].dir # "present"
                \/ \E f \in Documents : ~f.readable))
      => /\ page.status = 500
         /\ "detail" \in DOMAIN page.body
         /\ page.body.detail # ""

\* C25: for an archive that holds the one document with the header lines
\* "# Fix lighting bug", "Created by: alice", "Status: closed", "Tags:
\* lighting, bug", the fields the page extracts from the returned content
\* are that title, author, status and tags, and created, whose label does
\* not occur, is null.
C25_HeaderFieldsExtracted ==
    (/\ Loaded
     /\ page.seen[1].dir = "present"
     /\ Len(page.seen[1].files) = 1
     /\ page.seen[1].files[1].readable
     /\ page.seen[1].files[1].name = "fix-lighting.md"
     /\ page.seen[1].files[1].lines = HeaderDocument)
      => /\ page.view = "list"
         /\ Len(page.cards) = 1
         /\ page.cards[1].title = Some("Fix lighting bug")
         /\ page.cards[1].author = Some("alice")
         /\ page.cards[1].status = Some("closed")
         /\ page.cards[1].tags = <<"lighting", "bug">>
         /\ page.cards[1].created = None

----------------------------------------------------------------------------
(* The event loop: what the claim says of it. *)

\* task t has run the first step of its handler and not yet the last
InProgress(t) == tasks[t] # NoTask /\ tasks[t].pc >= 1

\* C27: at most one mutating operation on the same ticket id is in progress
\* at any time: two tasks that handle create, update, addComment or assign
\* for the same id are never both between the first and the last step of
\* their handlers.
C27_MutationsSerialized ==
    \A t1, t2 \in 1..MaxTasks :
      (t1 # t2 /\ InProgress(t1) /\ InProgress(t2))
        => tasks[t1].id # tasks[t2].id

\* a create is between two of its steps while an update of the same ticket
\* waits for the loop
C27_Witness ==
    \E t1, t2 \in 1..MaxTasks :
      /\ InProgress(t1) /\ tasks[t1].endpoint = "create_ticket"
      /\ tasks[t2].endpoint = "update_ticket" /\ tasks[t2].pc = 0
      /\ tasks[t1].id = tasks[t2].id
      /\ running = t1

----------------------------------------------------------------------------
(* The bot: what the claims say of it. *)

\* C28: once startup has completed, exactly one bot task has been started
\* when a token is configured and none when no token is; before startup
\* none is started; and when the task has ended with an exception, the
\* done-callback has logged it and the application is still serving.
C28_OneBotTask ==
    /\ bot.phase = "loading" => bot.started = 0
    /\ bot.phase = "serving"
         => bot.started = (IF Truthy(bot.token) THEN 1 ELSE 0)
    /\ bot.started = 0 => bot.task = "none"
    /\ bot.task = "failed" => bot.logged = 1 /\ bot.phase = "serving"
    /\ bot.task # "failed" => bot.logged = 0

\* the bot task has crashed and a request was answered with 200 after that
C28_Witness ==
    /\ bot.task = "failed" /\ bot.logged = 1 /\ bot.phase = "serving"
    /\ bot.started = 1
    /\ botStatus.status = 200
    /\ botStatus.seen[1].task = "failed"

\* C29: GET /api/bot/status never fails: it answers 200 with status
\* disabled exactly when no bot was initialised, online exactly when the bot
\* exists and is ready, connecting when it exists and is not ready; in
\* every state of the bot task.
C29_BotStatusNeverFails ==
    botStatus.status # 0
      => LET b == botStatus.seen[1]
         IN  /\ botStatus.status = 200
             /\ botStatus.body.status = "disabled" <=> ~b.exists
             /\ botStatus.body.status = "online" <=> (b.exists /\ b.ready)
             /\ (b.exists /\ ~b.ready) => botStatus.body.status = "connecting"

\* C30: the guild holds at most one category named Tickets, after any
\* number of on_ready events.
C30_OneTicketsCategory ==
    guild.tickets <= 1
====
